---- MODULE Spec2Model ----
(***************************************************************************)
(* Payment reconciliation of the CRM backend (backend/app/api/v1/          *)
(* payments.py): order creation, the Razorpay webhook, checkout            *)
(* verification and refund, each a request-scoped SQLAlchemy session       *)
(* running against one database.  A request is a sequence of statements;   *)
(* every SELECT and the final COMMIT is one atomic step, and steps of      *)
(* different requests interleave (READ COMMITTED).  A session's writes     *)
(* become visible to the others at its COMMIT, and its UPDATE carries      *)
(* only the columns whose value differs from the loaded one.               *)
(***************************************************************************)
EXTENDS Integers, Sequences, FiniteSets, TLC

VARIABLES
    payments,   \* table payments: sequence of rows, the index is Payment.id
    events,     \* table payment_events: sequence of rows in insertion order
    appts,      \* Appointment.payment_status per appointment
    proc,       \* the request running in each worker slot
    prov,       \* provider side: orders and refunds it has created
    base,       \* ledger rows present at the start
    notif,      \* notifications enqueued by checkout verification, per payment
    provLog,    \* statuses the provider-side payment went through, in order
    delivered,  \* indices of provLog delivered to the webhook
    tasks,      \* send_booking_email messages the task worker has received
    buckets,    \* RateLimitMiddleware.buckets: key -> deque of timestamps
    clock,      \* what time.time() returns
    passed,     \* per (client, path): timestamps of the requests passed on
    last        \* the request the rate limiter answered last

vars == <<payments, events, appts, proc, prov, base, notif, provLog, delivered,
         tasks, buckets, clock, passed, last>>
rl == <<buckets, clock, passed, last>>
env == <<base, provLog, delivered, tasks, rl>>
db == <<payments, events, appts>>

(* ----------------------------- bounds ---------------------------------- *)
MaxEvents == 3     \* rows of payment_events added in a run
MaxPayments == 2   \* orders the provider creates

Slots == {1, 2}

(* ----------------------------- data ------------------------------------ *)
CREATED == "CREATED"
AUTHORIZED == "AUTHORIZED"
CAPTURED == "CAPTURED"
FAILED == "FAILED"
REFUNDED == "REFUNDED"
PaymentStatus == {CREATED, AUTHORIZED, CAPTURED, FAILED, REFUNDED}

UNPAID == "UNPAID"
PAID == "PAID"
ApptPayStatus == {UNPAID, PAID, "FAILED", "REFUNDED"}

Tenants == {"t1", "t2"}
Appts == {"a1", "a2"}
ApptTenant(a) == IF a = "a1" THEN "t1" ELSE "t2"

\* ids the provider hands out, in the order it creates them
OrderIds == <<"o1", "o2", "o3", "o4">>
RefundIds == <<"rf1", "rf2", "rf3", "rf4", "rf5", "rf6", "rf7">>
PayIds == {"pay1", "pay2", "pay3"}
\* the order each provider-side payment belongs to
PayOrder(id) == IF id = "pay3" THEN "o2" ELSE "o1"

None == ""
Keep == "keep"
NoEv == [tenant |-> None, type |-> None, eid |-> None, order |-> None,
         ppid |-> None, st |-> None]

\* one entity of payload.{payment,order,refund}.entity; a missing entity or
\* field is the empty value, which Python's "or" chain skips like None
NoEnt == [id |-> None, order_id |-> None, payment_id |-> None,
          status |-> None, notes |-> None]
PaymentEnt(id, order, status, notes) ==
    [NoEnt EXCEPT !.id = id, !.order_id = order, !.status = status,
                  !.notes = notes]
OrderEnt(id, status, notes) ==
    [NoEnt EXCEPT !.id = id, !.status = status, !.notes = notes]
RefundEnt(id, pay, order, status) ==
    [NoEnt EXCEPT !.id = id, !.payment_id = pay, !.order_id = order,
                  !.status = status]
Payload(pe, oe, re) == [payment |-> pe, order |-> oe, refund |-> re]
NoPayload == Payload(NoEnt, NoEnt, NoEnt)

Idle == [pc |-> "idle", kind |-> "-", tenant |-> None, pay |-> 0,
         appt |-> None, ld |-> None, st |-> None, ldPpid |-> None,
         ppid |-> None, wAppt |-> Keep, ev |-> NoEv, eid |-> None,
         order |-> None, rp |-> None, called |-> "-", resp |-> "-",
         note |-> None, out |-> None, auth |-> "-", match |-> "-",
         req |-> None, pl |-> NoPayload]

\* Fields of a request: pc the statement it is at; pay, ld, ldPpid the row it
\* loaded; st, ppid the values its session holds; wAppt, ev the appointment
\* column and the ledger row it will write; called the provider API it called.
\* auth, match and req record facts of the input, for the properties only:
\* whether the signature is the provider's, whether the order id is the
\* stored one, and the appointment or payment id the request names; a
\* token-authenticated request keeps its tenant when it is done.  pl is the
\* payload a webhook delivery carries, kept when the delivery was applied.

\* a finished request: the HTTP status, and the error detail, the exception
\* or the branch that ended it
Done(kind, resp, note) == [Idle EXCEPT !.pc = "done", !.kind = kind,
                                       !.resp = resp, !.note = note]

InFlight == {j \in Slots : proc[j].pc \notin {"idle", "done"}}

\* a new request takes the lowest free worker slot; the ledger is bounded
CanStart(i) ==
    /\ proc[i].pc = "idle"
    /\ \A j \in Slots : j < i => proc[j].pc # "idle"
    /\ Len(events) - base + Cardinality(InFlight) < MaxEvents

(* ---------------- storage layer: payment_events ------------------------ *)
\* the ledger's uniqueness constraint on (tenant_id, provider_event_id),
\* NULL ids never conflict
EventKeyFree(ev) ==
    \/ ev.eid = None
    \/ \A k \in 1..Len(events) :
          ~(events[k].tenant = ev.tenant /\ events[k].eid = ev.eid)

\* the UPDATE reaches every payment of the appointment
UpdatePayment_AllOfAppt(p, r) ==
    [q \in 1..Len(payments) |->
        IF payments[q].appt = payments[p].appt
        THEN [payments[q] EXCEPT
                 !.status = IF r.st # r.ld THEN r.st ELSE @,
                 !.ppid = IF r.ppid # r.ldPpid THEN r.ppid ELSE @]
        ELSE payments[q]]

\* the rows an UPDATE of payment p writes: only the dirty columns
UpdatePayment(p, r) ==
    [payments EXCEPT ![p].status = IF r.st # r.ld THEN r.st ELSE @,
                     ![p].ppid = IF r.ppid # r.ldPpid THEN r.ppid ELSE @]

UpdateAppt(a, w) == IF w = Keep THEN appts ELSE [appts EXCEPT ![a] = w]

(* ---------------- order gateway: create_razorpay_order ------------------ *)
\* the column value an assignment leaves to be written
Dirty(new, loaded) == IF new # loaded THEN new ELSE Keep

TokenTenants == Tenants \cup {None, "bad"}

\* lines 29-57; provOk: whether client.order.create returns or raises
OrderBegin(i, tenant, appt, provOk) ==
    /\ CanStart(i)
    /\ IF tenant \notin Tenants
       THEN /\ proc' = [proc EXCEPT ![i] =
                  [Done("order", "400", "Invalid tenant_id")
                      EXCEPT !.tenant = tenant, !.req = appt]]
            /\ UNCHANGED prov
       ELSE IF ApptTenant(appt) # tenant
       THEN /\ proc' = [proc EXCEPT ![i] =
                  [Done("order", "404", "Appointment not found")
                      EXCEPT !.tenant = tenant, !.req = appt]]
            /\ UNCHANGED prov
       ELSE IF provOk
       THEN /\ prov.orders < MaxPayments
            /\ prov' = [prov EXCEPT !.orders = @ + 1]
            /\ proc' = [proc EXCEPT ![i] =
                  [Idle EXCEPT !.pc = "co_commit", !.kind = "order",
                               !.tenant = tenant, !.appt = appt,
                               !.req = appt,
                               !.order = OrderIds[prov.orders + 1],
                               !.called = "order",
                               !.wAppt = Dirty(UNPAID, appts[appt])]]
       ELSE /\ proc' = [proc EXCEPT ![i] =
                  [Done("order", "500", "ProviderError")
                      EXCEPT !.called = "order", !.tenant = tenant,
                             !.req = appt]]
            /\ UNCHANGED prov
    /\ UNCHANGED <<payments, events, appts, notif>>

\* lines 59-84
OrderCommit(i) ==
    LET r == proc[i]
        ev == [tenant |-> r.tenant, type |-> "order.created", eid |-> r.order,
               order |-> r.order, ppid |-> None, st |-> None]
    IN
    /\ r.pc = "co_commit"
    /\ IF EventKeyFree(ev)
       THEN /\ payments' = Append(payments,
                  [tenant |-> r.tenant, appt |-> r.appt, order |-> r.order,
                   ppid |-> None, status |-> CREATED])
            /\ events' = Append(events, ev)
            /\ appts' = UpdateAppt(r.appt, r.wAppt)
            /\ proc' = [proc EXCEPT ![i] =
                  [Done("order", "ok", "created") EXCEPT !.called = "order"]]
       ELSE /\ proc' = [proc EXCEPT ![i] =
                  [Done("order", "500", "IntegrityError")
                      EXCEPT !.called = "order"]]
            /\ UNCHANGED <<payments, events, appts>>
    /\ UNCHANGED <<prov, notif>>

(* ---------------- signature verifier: integration/razorpay.py ----------- *)
WebhookSecret == "whsec"
KeySecret == "keysec"

\* hmac.new(key, msg, sha256).hexdigest(): the digest is determined by, and
\* determines, the pair (key, msg)
Hmac(key, msg) == [form |-> "hex", key |-> key, msg |-> msg]

\* hmac.compare_digest(a, b) on two str: TypeError when b holds a non-ASCII
\* character, else equality
CompareDigest(a, b) ==
    IF b.form = "nonascii" THEN "raise"
    ELSE IF a = b THEN "true" ELSE "false"

\* the digest is compared without the body it was computed over
verify_webhook_any_body(raw, signature, secret) ==
    IF signature.form = "nonascii" THEN "raise"
    ELSE IF signature.form = "hex" /\ signature.key = secret THEN "true"
    ELSE "false"

verify_razorpay_webhook_signature(raw, signature, secret) ==
    CompareDigest(Hmac(secret, raw), signature)

\* the expected digest is computed with no secret, so anyone can compute it
verify_checkout_unkeyed(order_id, payment_id, signature, secret) ==
    IF signature.form = "nonascii" THEN "raise"
    ELSE IF signature.form = "hex" /\ signature.msg = <<order_id, payment_id>>
    THEN "true"
    ELSE "false"

verify_razorpay_checkout_signature(order_id, payment_id, signature, secret) ==
    CompareDigest(Hmac(secret, <<order_id, payment_id>>), signature)

(* ---------------- webhook payloads -------------------------------------- *)
Or2(a, b) == IF a # None THEN a ELSE b
Or3(a, b, c) == Or2(a, Or2(b, c))

\* lines 117-124
EventId(pl) == Or3(pl.payment.id, pl.order.id, pl.refund.id)
\* lines 131-136
ProviderOrderId(pl) == Or3(pl.payment.order_id, pl.order.id, pl.refund.order_id)
\* lines 137-141
ProviderPaymentId(pl) == Or2(pl.payment.id, pl.refund.payment_id)
\* lines 142-147
EntityStatus(pl) == Or3(pl.payment.status, pl.order.status, pl.refund.status)
\* lines 150-151; "nokey" is a notes map without a tenant_id
TenantHint(pl) ==
    LET notes == Or2(pl.payment.notes, pl.order.notes)
    IN IF notes = "nokey" THEN None ELSE notes

\* a "created" notification puts the payment back to CREATED
WebhookStatus_CreatedMapped(status, cur) ==
    IF status = "authorized" THEN AUTHORIZED
    ELSE IF status = "captured" THEN CAPTURED
    ELSE IF status = "failed" THEN FAILED
    ELSE IF status = "refunded" THEN REFUNDED
    ELSE IF status = "created" THEN CREATED
    ELSE cur

\* lines 196-203: the status the webhook assigns; cur when none is assigned
WebhookStatus(status, cur) ==
    IF status = "authorized" THEN AUTHORIZED
    ELSE IF status = "captured" THEN CAPTURED
    ELSE IF status = "failed" THEN FAILED
    ELSE IF status = "refunded" THEN REFUNDED
    ELSE cur

\* a captured payment leaves the appointment as it is
MirrorAppt_CapturedIgnored(status, cur) ==
    IF status = FAILED THEN "FAILED"
    ELSE IF status = REFUNDED THEN "REFUNDED"
    ELSE cur

\* lines 211-216 (and 260-261, 292-293): the appointment's mirrored status
MirrorAppt(status, cur) ==
    IF status = CAPTURED THEN PAID
    ELSE IF status = FAILED THEN "FAILED"
    ELSE IF status = REFUNDED THEN "REFUNDED"
    ELSE cur

PaymentsWhere(t, o) ==
    {p \in 1..Len(payments) :
        /\ payments[p].order = o
        /\ t # None => payments[p].tenant = t}
First(S) == IF S = {} THEN 0 ELSE CHOOSE p \in S : \A q \in S : p <= q

\* a delivery that matches no order is applied to the oldest payment
ResolvePayment_Fallback(pl) ==
    LET o == ProviderOrderId(pl)
        byOrder == IF o # None THEN First(PaymentsWhere(None, o)) ELSE 0
    IN IF byOrder # 0 THEN byOrder ELSE First(1..Len(payments))

\* lines 153-166: by (tenant hint, order id), then by order id alone
ResolvePayment(pl) ==
    LET o == ProviderOrderId(pl)
        t == TenantHint(pl)
        hinted == IF t # None /\ o # None /\ t \in Tenants
                  THEN First(PaymentsWhere(t, o)) ELSE 0
    IN IF hinted # 0 THEN hinted
       ELSE IF o # None THEN First(PaymentsWhere(None, o)) ELSE 0

(* ---------------- webhook reconciler: razorpay_webhook ------------------ *)
SigAbsent == [form |-> "absent", key |-> None, msg |-> NoPayload]
SigNonAscii == [form |-> "nonascii", key |-> None, msg |-> NoPayload]

\* lines 107-170
WebhookBegin(i, pl, sig) ==
    LET ok == verify_razorpay_webhook_signature(pl, sig, WebhookSecret)
        p == ResolvePayment(pl)
    IN
    /\ CanStart(i)
    /\ proc' = [proc EXCEPT ![i] = [
          IF sig.form = "absent"
          THEN Done("webhook", "400", "Missing signature")
          ELSE IF ok = "raise" THEN Done("webhook", "500", "TypeError")
          ELSE IF ok = "false"
          THEN Done("webhook", "400", "Invalid webhook signature")
          ELSE IF p = 0
          THEN [Done("webhook", "ok", "no payment")
                   EXCEPT !.order = ProviderOrderId(pl)]
          ELSE [Idle EXCEPT !.pc = "wh_check", !.kind = "webhook",
                            !.pay = p, !.tenant = payments[p].tenant,
                            !.appt = payments[p].appt,
                            !.ld = payments[p].status,
                            !.st = payments[p].status,
                            !.ldPpid = payments[p].ppid,
                            !.ppid = payments[p].ppid,
                            !.eid = EventId(pl),
                            !.order = ProviderOrderId(pl),
                            !.out = ProviderPaymentId(pl),
                            !.rp = EntityStatus(pl),
                            !.pl = pl]
          EXCEPT !.auth = IF sig = Hmac(WebhookSecret, pl) THEN "yes"
                          ELSE "no"]]
    /\ UNCHANGED <<payments, events, appts, prov, notif>>

\* the idempotency check left out: every delivery is stored and applied
WebhookCheck_NoDedup(i) ==
    LET r == proc[i] IN
    /\ r.pc = "wh_check"
    /\ proc' = [proc EXCEPT ![i] =
          [r EXCEPT !.pc = "wh_appt",
                    !.ev = [tenant |-> r.tenant, type |-> "webhook",
                            eid |-> r.eid, order |-> r.order,
                            ppid |-> r.out, st |-> r.rp],
                    !.st = WebhookStatus(r.rp, r.st),
                    !.ppid = IF r.out # None THEN r.out ELSE r.ppid]]
    /\ UNCHANGED <<payments, events, appts, prov, notif>>

\* the idempotency check and the event are keyed by the hinted tenant
WebhookCheck_EventUnderHint(i) ==
    LET r == proc[i]
        t == IF TenantHint(r.pl) # None THEN TenantHint(r.pl) ELSE r.tenant
        existing == r.eid # None /\ \E k \in 1..Len(events) :
                        events[k].tenant = t /\ events[k].eid = r.eid
    IN
    /\ r.pc = "wh_check"
    /\ proc' = [proc EXCEPT ![i] =
          IF existing THEN Done("webhook", "ok", "duplicate")
          ELSE [r EXCEPT !.pc = "wh_appt",
                         !.ev = [tenant |-> t, type |-> "webhook",
                                 eid |-> r.eid, order |-> r.order,
                                 ppid |-> r.out, st |-> r.rp],
                         !.st = WebhookStatus(r.rp, r.st),
                         !.ppid = IF r.out # None THEN r.out ELSE r.ppid]]
    /\ UNCHANGED <<payments, events, appts, prov, notif>>

\* lines 172-206
WebhookCheck(i) ==
    LET r == proc[i]
        existing == r.eid # None /\ \E k \in 1..Len(events) :
                        events[k].tenant = r.tenant /\ events[k].eid = r.eid
    IN
    /\ r.pc = "wh_check"
    /\ proc' = [proc EXCEPT ![i] =
          IF existing THEN Done("webhook", "ok", "duplicate")
          ELSE [r EXCEPT !.pc = "wh_appt",
                         !.ev = [tenant |-> r.tenant, type |-> "webhook",
                                 eid |-> r.eid, order |-> r.order,
                                 ppid |-> r.out, st |-> r.rp],
                         !.st = WebhookStatus(r.rp, r.st),
                         !.ppid = IF r.out # None THEN r.out ELSE r.ppid]]
    /\ UNCHANGED <<payments, events, appts, prov, notif>>

\* lines 208-216
WebhookAppt(i) ==
    LET r == proc[i] IN
    /\ r.pc = "wh_appt"
    /\ proc' = [proc EXCEPT ![i] =
          [r EXCEPT !.pc = "wh_commit",
                    !.wAppt = Dirty(MirrorAppt(r.st, appts[r.appt]),
                                    appts[r.appt])]]
    /\ UNCHANGED <<payments, events, appts, prov, notif>>

\* the commit goes through whatever the ledger already holds
WebhookCommit_NoConflict(i) ==
    LET r == proc[i] IN
    /\ r.pc = "wh_commit"
    /\ events' = Append(events, r.ev)
    /\ payments' = UpdatePayment(r.pay, r)
    /\ appts' = UpdateAppt(r.appt, r.wAppt)
    /\ proc' = [proc EXCEPT ![i] =
                  [Done("webhook", "ok", "applied") EXCEPT !.pl = r.pl]]
    /\ UNCHANGED <<prov, notif>>

\* the ledger conflict is swallowed and the rest of the session committed
WebhookCommit_StatusWithoutEvent(i) ==
    LET r == proc[i] IN
    /\ r.pc = "wh_commit"
    /\ events' = IF EventKeyFree(r.ev) THEN Append(events, r.ev) ELSE events
    /\ payments' = UpdatePayment(r.pay, r)
    /\ appts' = UpdateAppt(r.appt, r.wAppt)
    /\ proc' = [proc EXCEPT ![i] =
                  [Done("webhook", "ok", "applied") EXCEPT !.pl = r.pl]]
    /\ UNCHANGED <<prov, notif>>

\* line 218: INSERT payment_events, UPDATE payments, UPDATE appointments
WebhookCommit(i) ==
    LET r == proc[i] IN
    /\ r.pc = "wh_commit"
    /\ IF EventKeyFree(r.ev)
       THEN /\ events' = Append(events, r.ev)
            /\ payments' = UpdatePayment(r.pay, r)
            /\ appts' = UpdateAppt(r.appt, r.wAppt)
            /\ proc' = [proc EXCEPT ![i] =
                  [Done("webhook", "ok", "applied") EXCEPT !.pl = r.pl]]
       ELSE /\ proc' = [proc EXCEPT ![i] =
                  Done("webhook", "500", "IntegrityError")]
            /\ UNCHANGED <<payments, events, appts>>
    /\ UNCHANGED <<prov, notif>>

\* the deliveries the model draws from
WebhookStatuses == {"authorized", "captured", "failed", "refunded", "created"}
WebhookPayloads ==
    {Payload(PaymentEnt(id, PayOrder(id), s, None), NoEnt, NoEnt) :
        id \in PayIds, s \in WebhookStatuses}
    \cup {Payload(PaymentEnt("pay1", "o1", "captured", "t1"), NoEnt, NoEnt),
          Payload(PaymentEnt("pay1", "o1", "captured", "t2"), NoEnt, NoEnt),
          Payload(PaymentEnt("pay9", "o9", "captured", "t1"), NoEnt, NoEnt),
          Payload(PaymentEnt("pay1", None, "captured", None), NoEnt, NoEnt),
          Payload(PaymentEnt("pay2", "o1", "failed", "bad"), NoEnt, NoEnt),
          Payload(NoEnt, OrderEnt("o1", "paid", "t1"), NoEnt),
          Payload(PaymentEnt("pay2", "o1", "captured", None),
                  OrderEnt("o1", "paid", None), NoEnt),
          Payload(NoEnt, NoEnt, RefundEnt("rf1", "pay1", "o1", "processed"))}
\* the provider notifies of a refund only once it has created it
Sendable(pl) == pl.refund.id # None => prov.refunds >= 1
WebhookSigs(pl) ==
    {SigAbsent, SigNonAscii, Hmac(WebhookSecret, pl), Hmac("guess", pl),
     Hmac(WebhookSecret, NoPayload)}

(* ---------------- checkout verifier: razorpay_verify -------------------- *)
CkSigEmpty == [form |-> "hex", key |-> None, msg |-> <<None, None>>]
CkSigNonAscii == [form |-> "nonascii", key |-> None, msg |-> <<None, None>>]

\* lines 251-256: the status verification assigns; cur when none is assigned
VerifyStatus(rp_status, cur) ==
    IF rp_status = "captured" THEN CAPTURED
    ELSE IF rp_status = "authorized" THEN AUTHORIZED
    ELSE IF rp_status = "failed" THEN FAILED
    ELSE cur

\* the payment is looked up by its id alone
PaymentById(tenant, p) == IF p \in 1..Len(payments) THEN p ELSE 0

\* Payment by id and tenant (lines 231, 310); 0 when there is none
PaymentOf(tenant, p) ==
    IF p \in 1..Len(payments) /\ payments[p].tenant = tenant THEN p ELSE 0

\* lines 229-256; rp: what client.payment.fetch returns, "raise" when it raises
VerifyLoad(i, tenant, pid, order_id, payment_id, sig, rp) ==
    LET p == PaymentOf(tenant, pid)
        ok == verify_razorpay_checkout_signature(order_id, payment_id, sig,
                                                 KeySecret)
    IN
    /\ CanStart(i)
    /\ proc' = [proc EXCEPT ![i] = [
          IF p = 0 THEN Done("verify", "404", "Payment not found")
          ELSE IF payments[p].order # order_id
          THEN Done("verify", "400", "Order ID mismatch")
          ELSE IF ok = "raise" THEN Done("verify", "500", "TypeError")
          ELSE IF ok = "false" THEN Done("verify", "400", "Invalid signature")
          ELSE IF rp = "raise"
          THEN [Done("verify", "500", "ProviderError")
                   EXCEPT !.called = "fetch"]
          ELSE [Idle EXCEPT !.pc = "vf_appt", !.kind = "verify",
                            !.pay = p, !.tenant = tenant,
                            !.appt = payments[p].appt,
                            !.ld = payments[p].status,
                            !.st = VerifyStatus(rp, payments[p].status),
                            !.ldPpid = payments[p].ppid,
                            !.ppid = payment_id,
                            !.order = order_id,
                            !.rp = rp,
                            !.called = "fetch"]
          EXCEPT !.tenant = tenant, !.req = pid,
                 !.auth = IF sig = Hmac(KeySecret, <<order_id, payment_id>>)
                          THEN "yes" ELSE "no",
                 !.match = IF p = 0 THEN "-"
                           ELSE IF payments[p].order = order_id THEN "yes"
                           ELSE "no"]]
    /\ UNCHANGED <<payments, events, appts, prov, notif>>

\* lines 258-289 and 292-295; fx: how receipt rendering and the enqueueing of
\* the notification end
VerifyAppt(i, fx) ==
    LET r == proc[i] IN
    /\ r.pc = "vf_appt"
    /\ IF r.st = CAPTURED
       THEN IF fx = "receipt_raises"
            THEN /\ proc' = [proc EXCEPT ![i] =
                       [Done("verify", "500", "ReceiptError")
                           EXCEPT !.called = "fetch"]]
                 /\ UNCHANGED notif
            ELSE IF fx = "enqueue_raises"
            THEN /\ proc' = [proc EXCEPT ![i] =
                       [Done("verify", "500", "EnqueueError")
                           EXCEPT !.called = "fetch"]]
                 /\ UNCHANGED notif
            ELSE /\ notif' = [notif EXCEPT ![r.pay] = @ + 1]
                 /\ proc' = [proc EXCEPT ![i] =
                       [r EXCEPT !.pc = "vf_commit",
                                 !.wAppt = Dirty(PAID, appts[r.appt]),
                                 !.ev = [tenant |-> r.tenant,
                                         type |-> "checkout.verified",
                                         eid |-> None, order |-> r.order,
                                         ppid |-> r.ppid, st |-> r.rp]]]
       ELSE \* FAILED marks the appointment, but nothing is committed
            /\ fx = "ok"
            /\ proc' = [proc EXCEPT ![i] =
                  [Done("verify", "ok", "not committed")
                      EXCEPT !.called = "fetch", !.out = r.st]]
            /\ UNCHANGED notif
    /\ UNCHANGED <<payments, events, appts, prov>>

\* line 291
VerifyCommit(i) ==
    LET r == proc[i] IN
    /\ r.pc = "vf_commit"
    /\ IF EventKeyFree(r.ev)
       THEN /\ events' = Append(events, r.ev)
            /\ payments' = UpdatePayment(r.pay, r)
            /\ appts' = UpdateAppt(r.appt, r.wAppt)
            /\ proc' = [proc EXCEPT ![i] =
                  [Done("verify", "ok", "committed")
                      EXCEPT !.called = "fetch", !.out = r.st]]
       ELSE /\ proc' = [proc EXCEPT ![i] =
                  [Done("verify", "500", "IntegrityError")
                      EXCEPT !.called = "fetch"]]
            /\ UNCHANGED <<payments, events, appts>>
    /\ UNCHANGED <<prov, notif>>

CheckoutSigs(order_id, payment_id) ==
    {CkSigEmpty, CkSigNonAscii, Hmac("guess", <<order_id, payment_id>>)}
    \cup \* the provider signs only a payment of the order
         IF PayOrder(payment_id) = order_id
         THEN {Hmac(KeySecret, <<order_id, payment_id>>)} ELSE {}
FetchResults == {"captured", "authorized", "failed", "created", "raise"}
SideEffects == {"ok", "receipt_raises", "enqueue_raises"}

(* ---------------- refund initiator: razorpay_refund --------------------- *)
\* body.amount in hundredths of a rupee; err is the sign of the error the
\* float product float(amount) * 100 carries for that value
NoAmount == [given |-> FALSE, h |-> 0, err |-> 0]
Amount(h, err) == [given |-> TRUE, h |-> h, err |-> err]

\* float(body.amount) * 100, in thousandths of a paisa
FloatTimes100(a) == 1000 * a.h + a.err

\* int(x) alone: the fraction is cut off
Truncate(x) == x \div 1000

\* int(round(x))
Round(x) == (x + 500) \div 1000

\* lines 320-324: the payload of client.payment.refund
RefundPayload(a) ==
    IF a.given THEN [given |-> TRUE, amount |-> Round(FloatTimes100(a))]
    ELSE [given |-> FALSE, amount |-> 0]

\* lines 304-330; amt: body.amount; provOk: whether client.payment.refund
\* returns or raises.  out holds the provider call: what was asked, the
\* payload sent and the provider payment it was sent against.
RefundLoad(i, tenant, pid, amt, provOk) ==
    LET p == PaymentOf(tenant, pid) IN
    /\ CanStart(i)
    /\ IF p = 0
       THEN /\ proc' = [proc EXCEPT ![i] =
                  [Done("refund", "404", "Payment not found")
                      EXCEPT !.tenant = tenant, !.req = pid]]
            /\ UNCHANGED prov
       ELSE IF payments[p].ppid = None
       THEN /\ proc' = [proc EXCEPT ![i] =
                  [Done("refund", "400", "Payment not captured")
                      EXCEPT !.pay = p, !.tenant = tenant, !.req = pid]]
            /\ UNCHANGED prov
       ELSE IF amt.given /\ amt.h <= 0
       THEN /\ proc' = [proc EXCEPT ![i] =
                  [Done("refund", "400", "Refund amount must be > 0")
                      EXCEPT !.pay = p, !.tenant = tenant, !.req = pid]]
            /\ UNCHANGED prov
       ELSE IF ~provOk
       THEN /\ proc' = [proc EXCEPT ![i] =
                  [Done("refund", "500", "ProviderError")
                      EXCEPT !.called = "refund", !.pay = p,
                             !.tenant = tenant, !.req = pid]]
            /\ UNCHANGED prov
       ELSE /\ prov' = [prov EXCEPT !.refunds = @ + 1]
            /\ proc' = [proc EXCEPT ![i] =
                  [Idle EXCEPT !.pc = "rf_appt", !.kind = "refund",
                               !.pay = p, !.tenant = tenant,
                               !.req = pid,
                               !.appt = payments[p].appt,
                               !.ld = payments[p].status,
                               !.st = REFUNDED,
                               !.ldPpid = payments[p].ppid,
                               !.ppid = payments[p].ppid,
                               !.order = payments[p].order,
                               !.eid = RefundIds[prov.refunds + 1],
                               !.out = [asked |-> amt,
                                        sent |-> RefundPayload(amt),
                                        against |-> payments[p].ppid],
                               !.called = "refund"]]
    /\ UNCHANGED <<payments, events, appts, notif>>

\* lines 332-345
RefundAppt(i) ==
    LET r == proc[i] IN
    /\ r.pc = "rf_appt"
    /\ proc' = [proc EXCEPT ![i] =
          [r EXCEPT !.pc = "rf_commit",
                    !.out = None,
                    !.wAppt = Dirty("REFUNDED", appts[r.appt]),
                    !.ev = [tenant |-> r.tenant, type |-> "refund.created",
                            eid |-> r.eid, order |-> r.order,
                            ppid |-> r.ppid, st |-> None]]]
    /\ UNCHANGED <<payments, events, appts, prov, notif>>

\* line 347
RefundCommit(i) ==
    LET r == proc[i] IN
    /\ r.pc = "rf_commit"
    /\ IF EventKeyFree(r.ev)
       THEN /\ events' = Append(events, r.ev)
            /\ payments' = UpdatePayment(r.pay, r)
            /\ appts' = UpdateAppt(r.appt, r.wAppt)
            /\ proc' = [proc EXCEPT ![i] =
                  [Done("refund", "ok", "refunded") EXCEPT !.called = "refund"]]
       ELSE /\ proc' = [proc EXCEPT ![i] =
                  [Done("refund", "500", "IntegrityError")
                      EXCEPT !.called = "refund"]]
            /\ UNCHANGED <<payments, events, appts>>
    /\ UNCHANGED <<prov, notif>>

\* none, 300.00, 1.15 (whose product is just under 115), 0 and -1.00
RefundAmounts ==
    {NoAmount, Amount(30000, 0), Amount(115, -1), Amount(0, 0),
     Amount(-100, 0)}

(* ---------------- rate limiter: RateLimitMiddleware --------------------- *)
WindowSec == 2      \* rule.window_sec
MaxRequests == 2    \* rule.max_requests
MaxTime == 4        \* the clock's last tick in a run

\* strings are sequences of characters
KeyPrefix == <<"r", "l">>
Unknown == <<"u">>
NoClient == <<>>
Clients == {NoClient, <<"7">>, <<":", ":", "7">>}
Paths == {<<"/", "p">>, <<"/", "p", ":", "7">>}
\* the (client, path) pairs that send requests
Requests == {<<<<"7">>, <<"/", "p", ":", "7">>>>,
             <<<<":", ":", "7">>, <<"/", "p">>>>, <<NoClient, <<"/", "p">>>>}

\* lines 29-32: f"{self.key_prefix}:{ip}:{path}"
_key(client, path) ==
    LET ip == IF client # NoClient THEN client ELSE Unknown
    IN KeyPrefix \o <<":">> \o ip \o <<":">> \o path

\* defaultdict(deque): a key not seen before has an empty deque
Bucket(key) == IF key \in DOMAIN buckets THEN buckets[key] ELSE <<>>

\* the entry at the edge of the window is dropped too
RECURSIVE Prune_Inclusive(_, _)
Prune_Inclusive(q, window_start) ==
    IF q # <<>> /\ q[1] <= window_start
    THEN Prune_Inclusive(SubSeq(q, 2, Len(q)), window_start) ELSE q

\* lines 40-41, one turn of the loop after the other
RECURSIVE Prune(_, _)
Prune(q, window_start) ==
    IF q # <<>> /\ q[1] < window_start
    THEN Prune(SubSeq(q, 2, Len(q)), window_start) ELSE q

\* lines 34-51; the handler has no await before call_next, so it runs in one
\* step of the event loop
dispatch(client, path) ==
    LET key == _key(client, path)
        now == clock
        window_start == now - WindowSec
        q == Prune(Bucket(key), window_start)
    IN
    /\ IF Len(q) >= MaxRequests
       THEN /\ buckets' = (key :> q) @@ buckets
            /\ last' = [client |-> client, path |-> path, status |-> "429"]
            /\ UNCHANGED passed
       ELSE /\ buckets' = (key :> Append(q, now)) @@ buckets
            /\ last' = [client |-> client, path |-> path,
                        status |-> "call_next"]
            /\ passed' = [passed EXCEPT ![<<client, path>>] = Append(@, now)]
    /\ UNCHANGED <<payments, events, appts, proc, prov, notif, base, provLog,
                   delivered, tasks, clock>>

\* time.time() between two requests: the same value or a later one
Tick ==
    /\ clock < MaxTime
    /\ clock' = clock + 1
    /\ UNCHANGED <<payments, events, appts, proc, prov, notif, base, provLog,
                   delivered, tasks, buckets, passed, last>>

InitRate ==
    /\ buckets = <<>>
    /\ clock = 0
    /\ passed = [k \in Requests |-> <<>>]
    /\ last = [client |-> NoClient, path |-> <<>>, status |-> "-"]

RateNext ==
    \/ \E client \in Clients, path \in Paths :
          <<client, path>> \in Requests /\ dispatch(client, path)
    \/ Tick

(* ---------------- the response leaves, the session closes --------------- *)
Return(i) ==
    /\ proc[i].pc = "done"
    /\ proc' = [proc EXCEPT ![i] = Idle]
    /\ UNCHANGED <<payments, events, appts, prov, notif>>

Init ==
    /\ payments = <<>>
    /\ events = <<>>
    /\ appts = [a \in Appts |-> UNPAID]
    /\ proc = [i \in Slots |-> Idle]
    /\ prov = [orders |-> 0, refunds |-> 0]
    /\ base = 0
    /\ notif = [p \in 1..MaxPayments |-> 0]
    /\ provLog = <<>>
    /\ delivered = {}
    /\ tasks = <<>>
    /\ InitRate

Next ==
    \/ \E i \in Slots : CanStart(i) /\
          \E t \in TokenTenants, a \in Appts, ok \in BOOLEAN :
             OrderBegin(i, t, a, ok) /\ UNCHANGED env
    \/ \E i \in Slots : OrderCommit(i) /\ UNCHANGED env
    \/ \E i \in Slots : CanStart(i) /\
          \E pl \in WebhookPayloads : \E sig \in WebhookSigs(pl) :
             Sendable(pl) /\ WebhookBegin(i, pl, sig) /\ UNCHANGED env
    \/ \E i \in Slots : WebhookCheck(i) /\ UNCHANGED env
    \/ \E i \in Slots : WebhookAppt(i) /\ UNCHANGED env
    \/ \E i \in Slots : WebhookCommit(i) /\ UNCHANGED env
    \/ \E i \in Slots : CanStart(i) /\
          \E t \in Tenants, pid \in 1..MaxPayments, o \in {"o1", "o2"},
             pay \in PayIds, rp \in FetchResults :
             \E sig \in CheckoutSigs(o, pay) :
                VerifyLoad(i, t, pid, o, pay, sig, rp) /\ UNCHANGED env
    \/ \E i \in Slots, fx \in SideEffects : VerifyAppt(i, fx) /\ UNCHANGED env
    \/ \E i \in Slots : VerifyCommit(i) /\ UNCHANGED env
    \/ \E i \in Slots : CanStart(i) /\
          \E t \in Tenants, pid \in 1..MaxPayments, amt \in RefundAmounts,
             ok \in BOOLEAN :
             RefundLoad(i, t, pid, amt, ok) /\ UNCHANGED env
    \/ \E i \in Slots : RefundAppt(i) /\ UNCHANGED env
    \/ \E i \in Slots : RefundCommit(i) /\ UNCHANGED env
    \/ \E i \in Slots : Return(i) /\ UNCHANGED env

Spec == Init /\ [][Next]_vars

(* ---------------- requests served one at a time ------------------------ *)
\* The same requests with no two of them in flight together: what each
\* handler does when it runs alone.
SeqNext ==
    \/ \E i \in Slots : CanStart(i) /\ InFlight = {} /\
          \E t \in TokenTenants, a \in Appts, ok \in BOOLEAN :
             OrderBegin(i, t, a, ok) /\ UNCHANGED env
    \/ \E i \in Slots : OrderCommit(i) /\ UNCHANGED env
    \/ \E i \in Slots : CanStart(i) /\ InFlight = {} /\
          \E pl \in WebhookPayloads : \E sig \in WebhookSigs(pl) :
             Sendable(pl) /\ WebhookBegin(i, pl, sig) /\ UNCHANGED env
    \/ \E i \in Slots : WebhookCheck(i) /\ UNCHANGED env
    \/ \E i \in Slots : WebhookAppt(i) /\ UNCHANGED env
    \/ \E i \in Slots : WebhookCommit(i) /\ UNCHANGED env
    \/ \E i \in Slots : CanStart(i) /\ InFlight = {} /\
          \E t \in Tenants, pid \in 1..MaxPayments, o \in {"o1", "o2"},
             pay \in PayIds, rp \in FetchResults :
             \E sig \in CheckoutSigs(o, pay) :
                VerifyLoad(i, t, pid, o, pay, sig, rp) /\ UNCHANGED env
    \/ \E i \in Slots, fx \in SideEffects : VerifyAppt(i, fx) /\ UNCHANGED env
    \/ \E i \in Slots : VerifyCommit(i) /\ UNCHANGED env
    \/ \E i \in Slots : CanStart(i) /\ InFlight = {} /\
          \E t \in Tenants, pid \in 1..MaxPayments, amt \in RefundAmounts,
             ok \in BOOLEAN :
             RefundLoad(i, t, pid, amt, ok) /\ UNCHANGED env
    \/ \E i \in Slots : RefundAppt(i) /\ UNCHANGED env
    \/ \E i \in Slots : RefundCommit(i) /\ UNCHANGED env
    \/ \E i \in Slots : Return(i) /\ UNCHANGED env

SpecSeq == Init /\ [][SeqNext]_vars

(* ---------------- two payments of one appointment --------------------- *)
\* create_razorpay_order does not look for an earlier order of the
\* appointment, so two orders for a1 leave two CREATED payments and their
\* order.created rows.  The provider's notifications about the payment of
\* each order, the client's verifications and the tenant's refunds then run
\* against each other.
InitTwoPayments ==
    /\ payments = <<[tenant |-> "t1", appt |-> "a1", order |-> "o1",
                     ppid |-> None, status |-> CREATED],
                    [tenant |-> "t1", appt |-> "a1", order |-> "o2",
                     ppid |-> None, status |-> CREATED]>>
    /\ events = <<[tenant |-> "t1", type |-> "order.created", eid |-> "o1",
                   order |-> "o1", ppid |-> None, st |-> None],
                  [tenant |-> "t1", type |-> "order.created", eid |-> "o2",
                   order |-> "o2", ppid |-> None, st |-> None]>>
    /\ appts = [a \in Appts |-> UNPAID]
    /\ proc = [i \in Slots |-> Idle]
    /\ prov = [orders |-> 2, refunds |-> 0]
    /\ base = 2
    /\ notif = [p \in 1..MaxPayments |-> 0]
    /\ provLog = <<>>
    /\ delivered = {}
    /\ tasks = <<>>
    /\ InitRate

\* the provider-side payment of each stored payment
PayOf(pid) == IF pid = 1 THEN "pay1" ELSE "pay3"

Notice(pid, s) ==
    Payload(PaymentEnt(PayOf(pid), PayOrder(PayOf(pid)), s, None), NoEnt, NoEnt)

NextTwoPayments ==
    \/ \E i \in Slots : CanStart(i) /\
          \E pid \in 1..MaxPayments, s \in {"captured", "failed"} :
             WebhookBegin(i, Notice(pid, s), Hmac(WebhookSecret, Notice(pid, s)))
             /\ UNCHANGED env
    \/ \E i \in Slots : WebhookCheck(i) /\ UNCHANGED env
    \/ \E i \in Slots : WebhookAppt(i) /\ UNCHANGED env
    \/ \E i \in Slots : WebhookCommit(i) /\ UNCHANGED env
    \/ \E i \in Slots : CanStart(i) /\
          \E pid \in 1..MaxPayments, rp \in {"captured", "failed"} :
             VerifyLoad(i, "t1", pid, PayOrder(PayOf(pid)), PayOf(pid),
                        Hmac(KeySecret, <<PayOrder(PayOf(pid)), PayOf(pid)>>), rp)
             /\ UNCHANGED env
    \/ \E i \in Slots, fx \in SideEffects : VerifyAppt(i, fx) /\ UNCHANGED env
    \/ \E i \in Slots : VerifyCommit(i) /\ UNCHANGED env
    \/ \E i \in Slots : CanStart(i) /\
          \E pid \in 1..MaxPayments, amt \in RefundAmounts, ok \in BOOLEAN :
             RefundLoad(i, "t1", pid, amt, ok) /\ UNCHANGED env
    \/ \E i \in Slots : RefundAppt(i) /\ UNCHANGED env
    \/ \E i \in Slots : RefundCommit(i) /\ UNCHANGED env
    \/ \E i \in Slots : Return(i) /\ UNCHANGED env

SpecTwoPayments == InitTwoPayments /\ [][NextTwoPayments]_vars

(* ---------------- task queue: send_booking_email ------------------------ *)
MaxRetries == 5    \* retry_kwargs={"max_retries": 5}
MaxTasks == 2      \* messages the worker takes in a run

\* the keyword arguments of the message (payments.py 274-279) and the
\* parameters of the task (tasks.py 53)
DelayKwargs == {"to_email", "subject", "body", "attachment"}
TaskParams == {"to_email", "subject", "body", "attachment_bytes",
               "attachment_name"}

\* one run of the task body: the call binds the keyword arguments, then
\* send_email_smtp delivers or raises
send_booking_email(kwargs, smtpOk) ==
    IF ~(kwargs \subseteq TaskParams) THEN "TypeError"
    ELSE IF smtpOk THEN "ok" ELSE "SMTPError"

\* the worker takes a message that checkout verification enqueued
TaskReceive(p) ==
    /\ Len(tasks) < MaxTasks
    /\ Cardinality({k \in 1..Len(tasks) : tasks[k].pay = p}) < notif[p]
    /\ tasks' = Append(tasks, [pay |-> p, kwargs |-> DelayKwargs,
                               retries |-> 0, attempts |-> 0,
                               state |-> "queued"])
    /\ UNCHANGED <<payments, events, appts, proc, prov, notif, base, provLog,
                   delivered, rl>>

\* one more retry than max_retries allows
TaskAttempt_OneMore(k, smtpOk) ==
    LET t == tasks[k]
        res == send_booking_email(t.kwargs, smtpOk)
    IN
    /\ k \in 1..Len(tasks)
    /\ t.state = "queued"
    /\ tasks' = [tasks EXCEPT ![k] =
          IF res = "ok"
          THEN [t EXCEPT !.state = "succeeded", !.attempts = @ + 1]
          ELSE IF t.retries <= MaxRetries
          THEN [t EXCEPT !.retries = @ + 1, !.attempts = @ + 1]
          ELSE [t EXCEPT !.state = "failed", !.attempts = @ + 1]]
    /\ UNCHANGED <<payments, events, appts, proc, prov, notif, base, provLog,
                   delivered, rl>>

\* the worker runs task k (tasks.py 45-65): autoretry_for=(Exception,) turns
\* an exception of the body into a retry while the retries made are fewer
\* than max_retries, and into the task's failure after that
TaskAttempt(k, smtpOk) ==
    LET t == tasks[k]
        res == send_booking_email(t.kwargs, smtpOk)
    IN
    /\ k \in 1..Len(tasks)
    /\ t.state = "queued"
    /\ tasks' = [tasks EXCEPT ![k] =
          IF res = "ok"
          THEN [t EXCEPT !.state = "succeeded", !.attempts = @ + 1]
          ELSE IF t.retries < MaxRetries
          THEN [t EXCEPT !.retries = @ + 1, !.attempts = @ + 1]
          ELSE [t EXCEPT !.state = "failed", !.attempts = @ + 1]]
    /\ UNCHANGED <<payments, events, appts, proc, prov, notif, base, provLog,
                   delivered, rl>>

\* checkout verifications of the two payments, and the task worker
NextTasks ==
    \/ \E i \in Slots : CanStart(i) /\
          \E pid \in 1..MaxPayments, rp \in {"captured", "failed"} :
             VerifyLoad(i, "t1", pid, PayOrder(PayOf(pid)), PayOf(pid),
                        Hmac(KeySecret, <<PayOrder(PayOf(pid)), PayOf(pid)>>), rp)
             /\ UNCHANGED env
    \/ \E i \in Slots, fx \in SideEffects : VerifyAppt(i, fx) /\ UNCHANGED env
    \/ \E i \in Slots : VerifyCommit(i) /\ UNCHANGED env
    \/ \E i \in Slots : Return(i) /\ UNCHANGED env
    \/ \E p \in 1..MaxPayments : TaskReceive(p)
    \/ \E k \in 1..MaxTasks, smtpOk \in BOOLEAN : TaskAttempt(k, smtpOk)

SpecTasks == InitTwoPayments /\ [][NextTasks]_vars

\* the rate limiter alone: requests of several clients as time passes
SpecRate == Init /\ [][RateNext]_vars


(* ---------------- the provider's side of one payment -------------------- *)
\* The provider-side payment pay1 of order o1 moves forward through its own
\* lifecycle; every status it enters is notified, and a notification may be
\* delivered at any later time, any number of times.  The customer can pay
\* only once the order id has been returned, that is after the row is stored.
ProviderStatus == IF provLog = <<>> THEN "created" ELSE provLog[Len(provLog)]

ProviderNext(s) ==
    IF s = "created" THEN {"authorized", "failed"}
    ELSE IF s = "authorized" THEN {"captured", "failed"}
    ELSE IF s = "captured" THEN {"refunded"}
    ELSE {}

ProvRow == First(PaymentsWhere(None, "o1"))

ProviderStep ==
    /\ ProvRow # 0
    /\ \E s \in ProviderNext(ProviderStatus) : provLog' = Append(provLog, s)
    /\ UNCHANGED <<payments, events, appts, proc, prov, base, notif, delivered,
                   tasks, rl>>

Notification(k) == Payload(PaymentEnt("pay1", "o1", provLog[k], None), NoEnt, NoEnt)

Deliver(i, k) ==
    /\ WebhookBegin(i, Notification(k), Hmac(WebhookSecret, Notification(k)))
    /\ delivered' = delivered \cup {k}
    /\ UNCHANGED <<base, provLog, tasks, rl>>

\* the client verifies once the provider has taken the payment; the fetch
\* returns the provider's current status
ClientVerify(i) ==
    /\ provLog # <<>>
    /\ VerifyLoad(i, "t1", ProvRow, "o1", "pay1",
                  Hmac(KeySecret, <<"o1", "pay1">>), ProviderStatus)
    /\ UNCHANGED env

ProvNext ==
    \/ ProviderStep
    \/ \E i \in Slots : CanStart(i) /\ OrderBegin(i, "t1", "a1", TRUE)
                                    /\ UNCHANGED env
    \/ \E i \in Slots : OrderCommit(i) /\ UNCHANGED env
    \/ \E i \in Slots : CanStart(i) /\ \E k \in 1..Len(provLog) : Deliver(i, k)
    \/ \E i \in Slots : WebhookCheck(i) /\ UNCHANGED env
    \/ \E i \in Slots : WebhookAppt(i) /\ UNCHANGED env
    \/ \E i \in Slots : WebhookCommit(i) /\ UNCHANGED env
    \/ \E i \in Slots : CanStart(i) /\ ClientVerify(i)
    \/ \E i \in Slots, fx \in SideEffects : VerifyAppt(i, fx) /\ UNCHANGED env
    \/ \E i \in Slots : VerifyCommit(i) /\ UNCHANGED env
    \/ \E i \in Slots : Return(i) /\ UNCHANGED env

SpecProv == Init /\ [][ProvNext]_vars

(* ======================= properties ===================================== *)
\* the payment state graph of the design (section 4.2)
Edges == {<<CREATED, AUTHORIZED>>, <<CREATED, CAPTURED>>, <<CREATED, FAILED>>,
          <<AUTHORIZED, CAPTURED>>, <<AUTHORIZED, FAILED>>,
          <<CAPTURED, REFUNDED>>}

Rows == 1..Len(payments)

\* C1: whenever a step changes the stored Payment.status of a payment from s
\* to t, (s, t) is an edge of the state graph; FAILED and REFUNDED are never
\* left and CAPTURED never goes back to AUTHORIZED.
C1_OnlyGraphEdges ==
    [][\A p \in Rows :
          payments'[p].status # payments[p].status
             => <<payments[p].status, payments'[p].status>> \in Edges]_vars

\* the status a notified provider status proposes (webhook mapping)
Proposed(s) == WebhookStatus(s, CREATED)
\* a proposal applied through the forward-only graph
ApplyGraph(cur, t) == IF <<cur, t>> \in Edges THEN t ELSE cur
RECURSIVE FoldLog(_, _)
FoldLog(cur, log) ==
    IF log = <<>> THEN cur
    ELSE FoldLog(ApplyGraph(cur, Proposed(Head(log))), Tail(log))

Quiescent == \A i \in Slots : proc[i].pc \in {"idle", "done"}

\* C2: once every notification of the provider has been delivered to the
\* webhook and processed, in any order and with any duplication, the stored
\* Payment.status is the one obtained by applying the notified statuses in the
\* provider's order through the forward-only graph.
C2_ConvergesToProviderOrder ==
    (/\ provLog # <<>>
     /\ delivered = 1..Len(provLog)
     /\ Quiescent)
       => payments[ProvRow].status = FoldLog(CREATED, provLog)

\* ledger rows stored under a deduplication key
KeyRows(evs, t, e) ==
    {k \in 1..Len(evs) : evs[k].tenant = t /\ evs[k].eid = e}

C4_RedeliveryIsNoOp ==
    [][\A i \in Slots :
          /\ (proc[i].pc \in {"idle", "wh_check"} /\ proc'[i] # proc[i]
                 /\ proc'[i].kind = "webhook")
             => UNCHANGED <<payments, events, appts>>
          /\ (proc[i].pc = "wh_check" /\ proc'[i] # proc[i]
                 /\ KeyRows(events, proc[i].tenant, proc[i].eid) # {})
             => (proc'[i].pc = "done" /\ proc'[i].resp = "ok")]_vars

\* a redelivery of a stored webhook event has been acknowledged
C4_Witness ==
    \E i \in Slots :
       /\ proc[i].pc = "done" /\ proc[i].note = "duplicate"
       /\ \E k \in 1..Len(events) : events[k].type = "webhook"

\* the transition a request proposes; None when it proposes none
Proposal(r) ==
    IF r.kind = "refund" THEN REFUNDED
    ELSE IF r.kind = "webhook" THEN WebhookStatus(r.rp, None)
    ELSE IF r.kind = "verify" THEN VerifyStatus(r.rp, None)
    ELSE None

\* C5: an entry point that applies the transition to t and answers success
\* leaves Payment.status at t when (s, t) is an edge from the stored status s,
\* and leaves it unchanged when the stored status is already t.
C5_TransitionAppliedOnce ==
    [][\A i \in Slots :
          (/\ proc[i].pc \in {"wh_commit", "vf_appt", "vf_commit", "rf_commit"}
           /\ proc'[i].pc = "done" /\ proc'[i].resp = "ok"
           /\ Proposal(proc[i]) # None)
          => LET p == proc[i].pay
                 s == payments[p].status
                 t == Proposal(proc[i])
             IN /\ <<s, t>> \in Edges => payments'[p].status = t
                /\ s = t => payments'[p].status = t]_vars

\* C6: a checkout verification whose signature is not the provider's, or
\* whose order id is not the stored one, is rejected without a provider call
\* and writes nothing.
C6_RejectedVerifyWritesNothing ==
    [][\A i \in Slots :
          (/\ proc[i].pc = "idle" /\ proc'[i].kind = "verify"
           /\ (proc'[i].auth = "no" \/ proc'[i].match = "no"))
          => /\ proc'[i].pc = "done"
             /\ proc'[i].resp \in {"400", "404", "500"}
             /\ proc'[i].called = "-"
             /\ UNCHANGED <<payments, events, appts, notif, prov>>]_vars

\* a forged verification was rejected while the payment is still CREATED
C6_Witness ==
    \E i \in Slots :
       /\ proc[i].kind = "verify" /\ proc[i].note = "Invalid signature"
       /\ proc[i].auth = "no" /\ proc[i].match = "yes"
       /\ \E p \in Rows : payments[p].status = CREATED

\* C7: a webhook whose signature is absent or is not the provider's is
\* answered with an error and writes nothing.
C7_UnsignedWebhookRejected ==
    [][\A i \in Slots :
          (proc[i].pc = "idle" /\ proc'[i].kind = "webhook"
              /\ proc'[i].auth = "no")
          => /\ proc'[i].pc = "done"
             /\ proc'[i].resp \in {"400", "500"}
             /\ UNCHANGED <<payments, events, appts>>]_vars

\* a webhook without the provider's signature was rejected while a payment
\* it could have changed exists
C7_Witness ==
    \E i \in Slots :
       /\ proc[i].kind = "webhook" /\ proc[i].auth = "no"
       /\ proc[i].note = "Invalid webhook signature"
       /\ payments # <<>>

\* C8: a refund request for a payment whose status is CREATED or AUTHORIZED
\* is rejected with InvalidState (400) before any provider refund call and
\* writes nothing.
C8_RefundNeedsCaptured ==
    [][\A i \in Slots :
          (/\ proc[i].pc = "idle" /\ proc'[i].kind = "refund"
           /\ proc'[i].pay # 0
           /\ payments[proc'[i].pay].status \in {CREATED, AUTHORIZED})
          => /\ proc'[i].pc = "done"
             /\ proc'[i].resp = "400"
             /\ proc'[i].called = "-"
             /\ UNCHANGED <<payments, events, appts, prov>>]_vars

\* C9: when receipt rendering or the enqueueing of the notification fails in
\* a verification that fetched "captured", the request goes on to commit the
\* transition and does not answer with an error.
C9_SideEffectsIsolated ==
    [][\A i \in Slots, fx \in {"receipt_raises", "enqueue_raises"} :
          (proc[i].pc = "vf_appt" /\ proc[i].rp = "captured"
              /\ VerifyAppt(i, fx))
          => \/ proc'[i].pc = "vf_commit"
             \/ proc'[i].pc = "done" /\ proc'[i].resp = "ok"]_vars

\* the appointment status a payment status is mirrored to
Mirrored(t, cur) ==
    CASE t = CAPTURED -> PAID
      [] t = FAILED -> "FAILED"
      [] t = REFUNDED -> "REFUNDED"
      [] OTHER -> cur

\* C10: every step that changes a Payment.status to t leaves the payment's
\* appointment, in the same step, with the mirrored payment_status: PAID for
\* CAPTURED, FAILED for FAILED, REFUNDED for REFUNDED, and what it was for
\* AUTHORIZED.
C10_MirrorInSameCommit ==
    [][\A p \in Rows :
          payments'[p].status # payments[p].status
          => appts'[payments[p].appt]
                = Mirrored(payments'[p].status, appts[payments[p].appt])]_vars

\* the ledger row the step has appended; NoEv when it appended none
Appended ==
    IF Len(events') = Len(events) + 1
          /\ SubSeq(events', 1, Len(events)) = events
    THEN events'[Len(events')] ELSE NoEv

\* C11: event insertion and payment/appointment mutation are committed
\* together or not at all: a step that changes any table appends exactly one
\* ledger row; a new Payment row comes with its order.created row; a status
\* change comes with the webhook, checkout.verified or refund.created row of
\* that payment's order; and a request ended by a failing provider call has
\* changed no table.
C11_CommittedTogether ==
    [][/\ <<payments, events, appts>>' # <<payments, events, appts>>
             => Appended # NoEv
       /\ Len(payments') # Len(payments)
             => /\ payments' = Append(payments, payments'[Len(payments')])
                /\ Appended.type = "order.created"
                /\ Appended.order = payments'[Len(payments')].order
                /\ Appended.tenant = payments'[Len(payments')].tenant
       /\ \A p \in Rows :
             payments'[p].status # payments[p].status
             => /\ Appended.type \in
                      {"webhook", "checkout.verified", "refund.created"}
                /\ Appended.order = payments[p].order
                /\ Appended.tenant = payments[p].tenant
       /\ \A i \in Slots :
             (proc'[i] # proc[i] /\ proc'[i].note = "ProviderError")
             => /\ proc[i].pc = "idle"
                /\ UNCHANGED <<payments, events, appts>>]_vars

\* a refund was abandoned on a provider failure after a payment had been
\* captured and its ledger row committed
C11_Witness ==
    \E i \in Slots :
       /\ proc[i].kind = "refund" /\ proc[i].note = "ProviderError"
       /\ \E p \in Rows : payments[p].status = CAPTURED
       /\ \E k \in 1..Len(events) : events[k].type # "order.created"

\* C12: a checkout verification enqueues a receipt notification only when it
\* takes the payment into CAPTURED: never for a payment stored as CAPTURED,
\* and never a second one for the same payment.
C12_NotifyOnlyOnTransition ==
    [][\A p \in 1..MaxPayments :
          notif'[p] > notif[p]
          => /\ p \in Rows
             /\ payments[p].status # CAPTURED
             /\ notif[p] = 0]_vars

\* C13: Payment.provider_payment_id is write-once: a stored non-null value is
\* never changed by any step.
C13_ProviderPaymentIdWriteOnce ==
    [][\A p \in Rows :
          payments[p].ppid # None => payments'[p].ppid = payments[p].ppid]_vars

\* C14: concurrent mutators of one payment are serialised: whenever a request
\* commits a change of Payment.status, the status it read when it loaded the
\* payment is still the stored one.
C14_StatusWriteNotStale ==
    [][\A i \in Slots :
          (/\ proc[i].pc \in {"wh_commit", "vf_commit", "rf_commit"}
           /\ proc'[i].pc = "done"
           /\ payments'[proc[i].pay].status # payments[proc[i].pay].status)
          => proc[i].ld = payments[proc[i].pay].status]_vars

\* C15: Appointment.payment_status changes only in a step that also changes
\* the Payment.status of a payment of that appointment.
C15_ApptOnlyWithTransition ==
    [][\A a \in Appts :
          appts'[a] # appts[a]
          => \E p \in Rows :
                /\ payments[p].appt = a
                /\ payments'[p].status # payments[p].status]_vars

\* ledger rows the webhook has stored for an order
WebhookRows(evs, o) ==
    {k \in 1..Len(evs) : evs[k].type = "webhook" /\ evs[k].order = o}

\* the first signed delivery about a CREATED payment's order, with a payment
\* entity of status captured, being processed by request i
FirstCaptured(i) ==
    /\ proc[i].kind = "webhook" /\ proc[i].auth = "yes"
    /\ proc[i].rp = "captured" /\ proc[i].out # None
    /\ proc[i].order = payments[proc[i].pay].order
    /\ payments[proc[i].pay].status = CREATED
    /\ WebhookRows(events, proc[i].order) = {}

\* C16: run alone, the first correctly signed webhook delivery carrying a
\* payment entity with the order id of a CREATED payment and status captured
\* is not taken for a duplicate, and its commit leaves Payment.status
\* CAPTURED, Appointment.payment_status PAID and exactly one ledger row for
\* that delivery.
C16_FirstCapturedDelivery ==
    [][\A i \in Slots :
          (FirstCaptured(i) /\ proc'[i] # proc[i])
          => /\ proc[i].pc = "wh_check" => proc'[i].pc = "wh_appt"
             /\ proc[i].pc = "wh_appt" => proc'[i].pc = "wh_commit"
             /\ proc[i].pc = "wh_commit"
                   => /\ proc'[i].pc = "done" /\ proc'[i].resp = "ok"
                      /\ payments'[proc[i].pay].status = CAPTURED
                      /\ appts'[proc[i].appt] = PAID
                      /\ Appended.type = "webhook"
                      /\ Appended.eid = proc[i].eid
                      /\ Appended.order = proc[i].order
                      /\ Cardinality(WebhookRows(events', proc[i].order)) = 1]_vars

\* the delivery has been applied: one webhook row, CAPTURED and PAID
C16_Witness ==
    \E i \in Slots, p \in Rows :
       /\ proc[i].kind = "webhook" /\ proc[i].note = "applied"
       /\ payments[p].status = CAPTURED /\ appts[payments[p].appt] = PAID
       /\ Cardinality(WebhookRows(events, payments[p].order)) = 1
       /\ Len(events) = 2

\* C17: a correctly signed webhook whose extracted provider order id is that
\* of no Payment, or from which no order id is extracted, is acknowledged
\* with success and writes nothing.
C17_UncorrelatedWebhookNoOp ==
    [][\A i \in Slots :
          (/\ proc[i].pc = "idle" /\ proc'[i].kind = "webhook"
           /\ proc'[i].auth = "yes"
           /\ PaymentsWhere(None, proc'[i].order) = {})
          => /\ proc'[i].pc = "done" /\ proc'[i].resp = "ok"
             /\ UNCHANGED <<payments, events, appts>>]_vars

\* a signed delivery about an unknown order was acknowledged while a payment
\* of another order is stored
C17_Witness ==
    \E i \in Slots :
       /\ proc[i].kind = "webhook" /\ proc[i].note = "no payment"
       /\ proc[i].auth = "yes" /\ proc[i].order # None
       /\ payments # <<>>

\* C18: run alone, a refund of a CAPTURED payment that is neither refused for
\* its amount nor failed by the provider calls the provider refund against
\* the payment's provider_payment_id, with the amount in minor units (100
\* times the amount asked) or with no amount when none was asked; its commit
\* leaves Payment.status REFUNDED, Appointment.payment_status REFUNDED and one
\* appended refund.created row carrying the provider's refund.
C18_RefundOfCaptured ==
    [][\A i \in Slots :
          /\ (/\ proc[i].pc = "idle" /\ proc'[i].kind = "refund"
              /\ proc'[i].pay # 0
              /\ payments[proc'[i].pay].status = CAPTURED
              /\ proc'[i].note \notin
                    {"ProviderError", "Refund amount must be > 0"})
             => /\ proc'[i].pc = "rf_appt" /\ proc'[i].called = "refund"
                /\ proc'[i].out.against = payments[proc'[i].pay].ppid
                /\ proc'[i].out.against # None
                /\ proc'[i].out.sent.given = proc'[i].out.asked.given
                /\ proc'[i].out.asked.given
                      => /\ proc'[i].out.asked.h > 0
                         /\ proc'[i].out.sent.amount = proc'[i].out.asked.h
          /\ (/\ proc[i].pc = "rf_commit" /\ proc'[i] # proc[i]
              /\ proc[i].ld = CAPTURED)
             => /\ proc'[i].resp = "ok"
                /\ payments'[proc[i].pay].status = REFUNDED
                /\ appts'[proc[i].appt] = "REFUNDED"
                /\ Appended.type = "refund.created"
                /\ Appended.eid = proc[i].eid
                /\ Appended.ppid = payments[proc[i].pay].ppid]_vars

\* a refund of 1.15 was sent to the provider as 115 paisa
C18_Witness ==
    \E i \in Slots :
       /\ proc[i].pc = "rf_appt"
       /\ payments[proc[i].pay].status = CAPTURED
       /\ proc[i].out.asked = Amount(115, -1)
       /\ proc[i].out.sent.amount = 115

\* C19: the signature verifier never raises: a request whose signature is
\* not the provider's, however malformed, is answered with an
\* authentication failure (400) and never with a server error, and both
\* verifiers return true exactly for the HMAC of the message under the
\* secret.
C19_VerifierFailsClosed ==
    /\ \A i \in Slots :
          (proc[i].pc = "done" /\ proc[i].auth = "no")
          => /\ proc[i].kind = "webhook" => proc[i].resp = "400"
             /\ (proc[i].kind = "verify" /\ proc[i].match = "yes")
                   => proc[i].resp = "400"
    /\ \A pl \in WebhookPayloads : \A sig \in WebhookSigs(pl) :
          verify_razorpay_webhook_signature(pl, sig, WebhookSecret) = "true"
             <=> sig = Hmac(WebhookSecret, pl)
    /\ \A o \in {"o1", "o2"}, pay \in PayIds : \A sig \in CheckoutSigs(o, pay) :
          verify_razorpay_checkout_signature(o, pay, sig, KeySecret) = "true"
             <=> sig = Hmac(KeySecret, <<o, pay>>)

\* what a NotFound answer to a new request leaves behind: no provider call
\* and no table changed
NotFoundOnly(i) ==
    /\ proc'[i].pc = "done" /\ proc'[i].resp = "404"
    /\ proc'[i].called = "-"
    /\ UNCHANGED <<payments, events, appts, prov, notif>>

\* C20: the token-authenticated entry points are tenant-scoped: order
\* creation for an appointment of another tenant, and checkout verification
\* or refund for a payment of another tenant, are answered NotFound, call no
\* provider API and change no Payment, PaymentEvent or Appointment.
C20_TenantScoped ==
    [][\A i \in Slots :
          (proc[i].pc = "idle" /\ proc'[i].pc # "idle")
          => /\ (/\ proc'[i].kind = "order"
                 /\ proc'[i].tenant \in Tenants
                 /\ ApptTenant(proc'[i].req) # proc'[i].tenant)
                => NotFoundOnly(i)
             /\ (/\ proc'[i].kind \in {"verify", "refund"}
                 /\ proc'[i].req \in Rows
                 /\ payments[proc'[i].req].tenant # proc'[i].tenant)
                => NotFoundOnly(i)]_vars

\* another tenant asked to refund a captured payment and was answered
\* NotFound
C20_Witness ==
    \E i \in Slots :
       /\ proc[i].kind = "refund" /\ proc[i].resp = "404"
       /\ proc[i].req \in Rows
       /\ payments[proc[i].req].tenant # proc[i].tenant
       /\ payments[proc[i].req].status = CAPTURED

\* C21: a signed, correlated, non-duplicate webhook whose mapped status is
\* not reachable from the stored status is recorded in the ledger but leaves
\* Payment.status and Appointment.payment_status unchanged.
C21_UnreachableProposalOnlyRecorded ==
    [][\A i \in Slots :
          (/\ proc[i].pc = "wh_commit" /\ proc'[i].pc = "done"
           /\ proc'[i].resp = "ok"
           /\ WebhookStatus(proc[i].rp, None) # None
           /\ <<payments[proc[i].pay].status,
                WebhookStatus(proc[i].rp, None)>> \notin Edges)
          => /\ Appended = proc[i].ev
             /\ payments'[proc[i].pay].status = payments[proc[i].pay].status
             /\ appts' = appts]_vars

\* C22: a checkout verification that passed the order-id and signature
\* checks on a payment in CREATED leaves the stored Payment.status at the
\* status mapped from the fetched one (CAPTURED, AUTHORIZED, FAILED; any other
\* fetched status leaves it unchanged) when the request completes, with
\* Appointment.payment_status FAILED in the failed case.
C22_FetchedStatusDurable ==
    [][\A i \in Slots :
          (/\ proc[i].kind = "verify"
           /\ proc[i].pc \in {"vf_appt", "vf_commit"}
           /\ proc[i].ld = CREATED
           /\ proc'[i].pc = "done" /\ proc'[i].resp = "ok")
          => /\ payments'[proc[i].pay].status =
                   VerifyStatus(proc[i].rp, CREATED)
             /\ proc[i].rp = "failed" => appts'[proc[i].appt] = "FAILED"]_vars

\* the entity status of a delivery: that of the payment entity, else of the
\* order entity, else of the refund entity
FirstPresentStatus(pl) ==
    IF pl.payment.status # None THEN pl.payment.status
    ELSE IF pl.order.status # None THEN pl.order.status
    ELSE pl.refund.status

\* the status an entity status stands for; cur when it stands for none
StatusFor(s, cur) ==
    CASE s = "authorized" -> AUTHORIZED
      [] s = "captured" -> CAPTURED
      [] s = "failed" -> FAILED
      [] s = "refunded" -> REFUNDED
      [] OTHER -> cur

\* C23: the commit of a correlated webhook whose event id is not in the
\* ledger appends exactly one PaymentEvent.  The status the delivery proposes
\* is AUTHORIZED, CAPTURED, FAILED or REFUNDED for an entity status of
\* authorized, captured, failed or refunded, and it is the stored status of a
\* payment that did not change since the delivery read it; for any other
\* entity status the commit leaves Payment.status unchanged.  The entity
\* status is the first present of the payment, order and refund entities.
C23_EventAppendedStatusMapped ==
    [][\A i \in Slots :
          (/\ proc[i].pc = "wh_commit" /\ proc'[i].pc = "done"
           /\ KeyRows(events, payments[proc[i].pay].tenant,
                      proc[i].eid) = {})
          => LET s == FirstPresentStatus(proc[i].pl)
                 p == proc[i].pay
             IN /\ Len(events') = Len(events) + 1
                /\ Appended.type = "webhook"
                /\ Appended.st = s
                /\ proc[i].st = StatusFor(s, proc[i].ld)
                /\ StatusFor(s, None) = None
                      => payments'[p].status = payments[p].status
                /\ payments[p].status = proc[i].ld
                      => payments'[p].status =
                            StatusFor(s, payments[p].status)]_vars

\* a "created" notification was recorded for a captured payment, and an
\* order-paid one (payment and order entities) was applied as captured
C23_Witness ==
    /\ \E i \in Slots : proc[i].pc = "done" /\ proc[i].note = "applied"
    /\ Len(events) >= 3
    /\ events[Len(events)].st = "created"
    /\ \E p \in Rows :
          /\ payments[p].order = events[Len(events)].order
          /\ payments[p].status = CAPTURED

\* the tenant a delivery hints at in its notes, when it names a tenant
HintedTenant(pl) ==
    LET notes == IF pl.payment.notes # None THEN pl.payment.notes
                 ELSE pl.order.notes
    IN IF notes \in Tenants THEN notes ELSE None
\* the order a delivery is about
PayloadOrder(pl) ==
    IF pl.payment.order_id # None THEN pl.payment.order_id
    ELSE IF pl.order.id # None THEN pl.order.id
    ELSE pl.refund.order_id

\* C24: a webhook that is applied mutates one payment only.  When its payload
\* hints at tenant T and a payment (T, O) exists, that payment is the one
\* mutated and the event is recorded under T; otherwise (no hint, a hint
\* that names no tenant, or no payment (T, O)) the payment is one with
\* provider_order_id O and the event is recorded under that payment's
\* tenant.
C24_TargetResolution ==
    [][\A i \in Slots :
          (/\ proc[i].pc = "wh_commit" /\ proc'[i].pc = "done"
           /\ proc'[i].resp = "ok")
          => LET pl == proc[i].pl
                 T == HintedTenant(pl)
                 O == PayloadOrder(pl)
                 p == proc[i].pay
                 hinted == {q \in Rows : /\ T # None
                                         /\ payments[q].tenant = T
                                         /\ payments[q].order = O}
             IN /\ \A q \in Rows \ {p} : payments'[q] = payments[q]
                /\ Len(payments') = Len(payments)
                /\ hinted # {} => p \in hinted /\ Appended.tenant = T
                /\ hinted = {} => /\ payments[p].order = O
                                  /\ Appended.tenant = payments[p].tenant]_vars

\* a delivery hinting at tenant t2 was applied to the payment of tenant t1
\* for the same order, and recorded under t1
C24_Witness ==
    \E i \in Slots :
       /\ proc[i].pc = "done" /\ proc[i].note = "applied"
       /\ HintedTenant(proc[i].pl) = "t2"
       /\ \E p \in Rows : /\ payments[p].order = PayloadOrder(proc[i].pl)
                          /\ payments[p].tenant = "t1"
                          /\ payments[p].status = CAPTURED
       /\ events[Len(events)].tenant = "t1"
       /\ events[Len(events)].type = "webhook"

\* C25: a send_booking_email task is run at most 6 times (5 retries); a
\* task that failed or succeeded is never run again; a failed task has been
\* run exactly 6 times; and a step of the task worker changes no Payment,
\* PaymentEvent or Appointment, starts no request and calls no provider API.
C25_RetriesBoundedAndDecoupled ==
    [][\A k \in 1..Len(tasks') :
          (k > Len(tasks) \/ tasks'[k] # tasks[k])
          => /\ <<payments, events, appts>>' = <<payments, events, appts>>
             /\ proc' = proc /\ prov' = prov /\ notif' = notif
             /\ tasks'[k].attempts <= 6
             /\ tasks'[k].retries <= 5
             /\ k <= Len(tasks) => tasks[k].state = "queued"
             /\ tasks'[k].state = "failed" => tasks'[k].attempts = 6]_vars

\* a task failed for good after its sixth run while the payment it was
\* enqueued for is captured
C25_Witness ==
    \E k \in 1..Len(tasks) :
       /\ tasks[k].state = "failed"
       /\ tasks[k].attempts = 6
       /\ payments[tasks[k].pay].status = CAPTURED

\* C26: a delivery is skipped as a duplicate only when it is a redelivery:
\* the ledger already holds a webhook row of the same tenant with the same
\* entity id and the same entity status.  The order.created row of the order
\* gateway, or an earlier notification of another status about the same
\* entity, does not make a delivery a duplicate.
C26_OnlyRedeliveriesSkipped ==
    [][\A i \in Slots :
          (/\ proc[i].pc = "wh_check" /\ proc'[i].pc = "done"
           /\ proc'[i].note = "duplicate")
          => \E k \in 1..Len(events) :
                /\ events[k].type = "webhook"
                /\ events[k].tenant = proc[i].tenant
                /\ events[k].eid = proc[i].eid
                /\ events[k].st = FirstPresentStatus(proc[i].pl)]_vars

\* C27: the payment_status a successful checkout verification returns is the
\* Payment.status stored for that payment when the request has finished.
C27_ResponseIsStoredStatus ==
    [][\A i \in Slots :
          (/\ proc[i].kind = "verify"
           /\ proc[i].pc \in {"vf_appt", "vf_commit"}
           /\ proc'[i].pc = "done" /\ proc'[i].resp = "ok")
          => proc'[i].out = payments'[proc[i].pay].status]_vars

\* C28: in every committed state, an appointment whose payment_status is
\* PAID has at least one Payment with status CAPTURED.
C28_PaidHasCapturedPayment ==
    \A a \in Appts :
       appts[a] = PAID
          => \E p \in Rows : payments[p].appt = a /\ payments[p].status = CAPTURED

\* C29: a refund request on a payment that is REFUNDED or FAILED makes no
\* provider refund call, and no refund.created event is appended for an
\* order that already has one: at most one provider refund per payment.
C29_OneRefundPerPayment ==
    [][/\ \A i \in Slots :
             (/\ proc[i].pc = "idle" /\ proc'[i].kind = "refund"
              /\ proc'[i].pay # 0
              /\ payments[proc'[i].pay].status \in {REFUNDED, FAILED})
             => proc'[i].called = "-" /\ prov' = prov
       /\ Appended.type = "refund.created"
             => \A k \in 1..Len(events) :
                   ~(/\ events[k].type = "refund.created"
                     /\ events[k].order = Appended.order)]_vars

\* request i is about payment q: a delivery by its order id, a verification
\* or a refund by the payment id in its path
Targets(i, q) ==
    IF proc[i].kind = "webhook"
    THEN payments[q].order = PayloadOrder(proc[i].pl)
    ELSE proc[i].kind \in {"verify", "refund"} /\ proc[i].req = q

\* C30: frame.  No step deletes a Payment or changes or deletes a row of the
\* ledger; the tenant, appointment and provider_order_id of a Payment never
\* change; a step changes the status or provider_payment_id of a Payment only
\* when it is the commit of a webhook, verification or refund about that
\* payment, so every other Payment and, in order creation, every existing
\* Payment stays as it is.
C30_Frame ==
    [][/\ Len(payments') >= Len(payments)
       /\ Len(events') >= Len(events)
       /\ SubSeq(events', 1, Len(events)) = events
       /\ \A q \in Rows :
             /\ payments'[q].tenant = payments[q].tenant
             /\ payments'[q].appt = payments[q].appt
             /\ payments'[q].order = payments[q].order
             /\ payments'[q] # payments[q]
                   => \E i \in Slots :
                         /\ proc[i].pc \in {"wh_commit", "vf_commit",
                                            "rf_commit"}
                         /\ proc'[i].pc = "done"
                         /\ Targets(i, q)]_vars

\* a delivery about one of two payments of the same appointment was applied:
\* that payment is captured, the other is still as created
C30_Witness ==
    /\ Len(payments) = 2
    /\ payments[1].appt = payments[2].appt
    /\ payments[2].status = CAPTURED /\ payments[2].ppid # None
    /\ payments[1].status = CREATED /\ payments[1].ppid = None
    /\ \E i \in Slots : proc[i].pc = "done" /\ proc[i].note = "applied"

\* the requests of one (client, path) passed on with a timestamp in [t - w, t]
InWindow(ts, t, w) ==
    Cardinality({j \in 1..Len(ts) : ts[j] >= t - w /\ ts[j] <= t})

\* C31: for every (client, path) and every time t, at most max_requests
\* requests passed on have a timestamp in [t - window_sec, t].  A request is
\* passed on exactly when fewer than max_requests requests of its own
\* (client, path) were passed on in the window that ends now: neither rejected
\* requests nor requests of another (client, path) count.  A rejected
\* request adds no timestamp to any bucket, and a request changes the bucket
\* and the record of its own (client, path) only.
C31_SlidingWindow ==
    [][/\ \A k \in Requests, t \in 0..MaxTime :
             InWindow(passed'[k], t, WindowSec) <= MaxRequests
       /\ clock' = clock =>
             LET k == <<last'.client, last'.path>>
                 Old(x) == IF x \in DOMAIN buckets THEN buckets[x] ELSE <<>>
             IN /\ k \in Requests
                /\ last'.status = "call_next"
                      <=> InWindow(passed[k], clock, WindowSec) < MaxRequests
                /\ last'.status = "call_next"
                      => passed'[k] = Append(passed[k], clock)
                /\ last'.status = "429"
                      => /\ passed' = passed
                         /\ \A x \in DOMAIN buckets' :
                               Len(buckets'[x]) <= Len(Old(x))
                /\ \A k2 \in Requests \ {k} : passed'[k2] = passed[k2]
                /\ Cardinality({x \in DOMAIN buckets' :
                                   buckets'[x] # Old(x)}) <= 1]_vars

\* a (client, path) that had requests passed on, dropped from its bucket and
\* passed on again is now refused, while a request of another client on the
\* same path was passed on at the same time
C31_Witness ==
    \E k \in Requests, k2 \in Requests :
       /\ k2[1] # k[1] /\ k2[2] = k[2]
       /\ last = [client |-> k[1], path |-> k[2], status |-> "429"]
       /\ Len(passed[k]) = MaxRequests + 1
       /\ InWindow(passed[k], clock, WindowSec) = MaxRequests
       /\ passed[k2] # <<>>
       /\ passed[k2][Len(passed[k2])] = clock
====
